---------------------------- MODULE Spec2Model ----------------------------
(***************************************************************************)
(* KeypairAuth client: the shared user-configuration store                 *)
(* (client/keypairauthclient/config.py) and its diff/merge helpers         *)
(* (client/dicttools.py).                                                  *)
(*                                                                         *)
(* Several processes share one configuration file and its side files       *)
(* (.temp, .sentinel, .backup, .backup.temp).  Each process holds a Config *)
(* handle; open (Config.__init__), save and sync are modelled system call  *)
(* by system call, so that other processes interleave between the calls.   *)
(*                                                                         *)
(* File system.  save() reaches the code after line 168 only where         *)
(* os.fchmod does not exist (the AttributeError it catches); where the     *)
(* function exists, os.fchmod(<file name>, mode) raises TypeError.  The    *)
(* file system is therefore the one the code is written for, which the     *)
(* unlink before the rename at lines 182-184 also shows: a rename fails    *)
(* when its source is missing, when its target exists, and when another    *)
(* process has the source open; a file opened 'w' is created or truncated  *)
(* at once and receives its bytes when it is closed.                       *)
(*                                                                         *)
(* Time.  The clock counts seconds; a file's modification time and         *)
(* time.time() are read from it.                                           *)
(***************************************************************************)
EXTENDS Naturals, Integers, FiniteSets, Sequences, TLC

(***************************************************************************)
(* Nested mappings.  A value is a scalar <<"s", form, n>> or a mapping     *)
(* <<"m", f>>, f a function from keys to values.  A scalar is in its       *)
(* "typed" form (after validation) or in the "text" form it has in a file  *)
(* and in a ConfigObj loaded without a configspec.                         *)
(***************************************************************************)
Scalar(form, n) == <<"s", form, n>>

Typed(n) == Scalar("typed", n)

Text(n) == Scalar("text", n)

Mapping(f) == <<"m", f>>

IsMapping(v) == v[1] = "m"

EmptyDict == [k \in {} |-> 0]

\* dict.get(key, {}): the value under a key, an empty dict when absent.
Get(d, k) == IF k \in DOMAIN d THEN d[k] ELSE Mapping(EmptyDict)

\* d with key k set to v (d[k] = v).
Put(d, k, v) == [j \in DOMAIN d \cup {k} |-> IF j = k THEN v ELSE d[j]]

\* d without key k (del d[k]).
Del(d, k) == [j \in DOMAIN d \ {k} |-> d[j]]

(***************************************************************************)
(* dicttools.new_items: the added or changed items of new_dict.            *)
(***************************************************************************)
\* A depth test that also recurses at the level equal to the depth.
DeeperOrSame(deepness, current_level) == deepness = -1 \/ deepness >= current_level

\* Line 20: deepness == -1 or deepness > _current_level.
Deeper(deepness, current_level) == deepness = -1 \/ deepness > current_level

RECURSIVE new_items(_, _, _, _)
new_items(old_dict, new_dict, deepness, current_level) ==
    LET Recurse(k) == /\ Deeper(deepness, current_level)
                      /\ IsMapping(old_dict[k])
                      /\ IsMapping(new_dict[k])
        Included == {k \in DOMAIN new_dict :
                        \/ k \notin DOMAIN old_dict
                        \/ Recurse(k)
                        \/ old_dict[k] # new_dict[k]}
    IN  [k \in Included |->
            IF k \notin DOMAIN old_dict THEN new_dict[k]
            ELSE IF Recurse(k)
                 THEN Mapping(new_items(old_dict[k][2], new_dict[k][2],
                                        deepness, current_level + 1))
                 ELSE new_dict[k]]

(***************************************************************************)
(* dicttools.recursive_update: new_dict applied onto old_dict, in place.   *)
(* A nested mapping of new_dict is merged into old_dict.get(key, {}).      *)
(* When that value is a scalar, the first assignment of the nested call    *)
(* raises TypeError (a scalar has no item assignment); an empty nested     *)
(* mapping assigns nothing and the scalar is stored back.                  *)
(* recursive_update is the value old_dict has, and the function returns,   *)
(* when no assignment raises; TypeError stands for the raised exception.   *)
(***************************************************************************)
TypeError == [k \in {"TypeError"} |-> Text(0)]

RECURSIVE recursive_update(_, _)

\* Whether the iteration of lines 36-39 for key k raises.
UpdateRaises(old_dict, new_dict, k) ==
    /\ IsMapping(new_dict[k])
    /\ IF IsMapping(Get(old_dict, k))
       THEN recursive_update(Get(old_dict, k)[2], new_dict[k][2]) = TypeError
       ELSE DOMAIN new_dict[k][2] # {}

\* The value lines 36-39 store under key k.
UpdatedValue(old_dict, new_dict, k) ==
    IF ~IsMapping(new_dict[k]) THEN new_dict[k]
    ELSE IF IsMapping(Get(old_dict, k))
         THEN Mapping(recursive_update(Get(old_dict, k)[2], new_dict[k][2]))
         ELSE old_dict[k]

recursive_update(old_dict, new_dict) ==
    IF \E k \in DOMAIN new_dict : UpdateRaises(old_dict, new_dict, k)
    THEN TypeError
    ELSE [k \in DOMAIN old_dict \cup DOMAIN new_dict |->
             IF k \in DOMAIN new_dict
             THEN UpdatedValue(old_dict, new_dict, k)
             ELSE old_dict[k]]

\* The values old_dict can be left with when recursive_update raises: the
\* keys of new_dict are visited in the dictionary's order, which the model
\* leaves open, so any set of keys may have been stored before the key that
\* raises, whose nested mapping is itself left part-way.
RECURSIVE Interrupted(_, _)
Interrupted(old_dict, new_dict) ==
    LET Raising == {k \in DOMAIN new_dict : UpdateRaises(old_dict, new_dict, k)}
        At(f) == IF IsMapping(old_dict[f])
                 THEN {Mapping(r) : r \in Interrupted(old_dict[f][2], new_dict[f][2])}
                 ELSE {old_dict[f]}
        Left(f, S, v) == [j \in DOMAIN old_dict \cup S |->
                            IF j = f THEN v
                            ELSE IF j \in S THEN UpdatedValue(old_dict, new_dict, j)
                                 ELSE old_dict[j]]
    IN  UNION {UNION {{Left(f, S, v) : v \in At(f)} :
                      S \in SUBSET (DOMAIN new_dict \ Raising)} :
               f \in Raising}

(***************************************************************************)
(* The configuration specification.  CORE_CONFIGSPEC declares the section  *)
(* keypairdb of records ([[__many__]]); of a record's keys the model keeps *)
(* one without a default (added = float()) and one with a default          *)
(* (last_used = float(default=-1)).  The caller's configspec_string        *)
(* declares a section a with two integer keys x and y, default 0.          *)
(***************************************************************************)
ADefaults == [x |-> 0, y |-> 0]

\* The section gui of the application's specification (application.py
\* lines 20-26): keypair_files_syncer = integer(default=-1).
GuiDefaults == [keypair_files_syncer |-> -1]

RecordRequired == {"added"}

\* A record specification whose default for last_used is 0.
RecordZeroDefaults == [last_used |-> 0]

RecordDefaults == [last_used |-> -1]

(***************************************************************************)
(* ConfigObj.validate(validator, copy=True) on one section: a present      *)
(* value is converted to its declared type, a missing one takes its        *)
(* default, and the check fails on a value that cannot be converted and on *)
(* a missing key that has no default.                                      *)
(***************************************************************************)
ValidateSection(sec, required, defaults) ==
    LET keys == required \cup DOMAIN defaults
        Bad(k) == IF k \in DOMAIN sec
                  THEN IsMapping(sec[k]) \/ sec[k][2] = "bad"
                  ELSE k \in required
    IN  [ok   |-> \A k \in keys : ~Bad(k),
         dict |-> [k \in DOMAIN sec \cup DOMAIN defaults |->
                     IF k \in DOMAIN sec
                     THEN IF k \in keys /\ ~Bad(k) THEN Typed(sec[k][3]) ELSE sec[k]
                     ELSE Typed(defaults[k])]]

\* Config.validate: the check of the whole document; a missing section is
\* created.  The section gui is the application's: it is checked in the
\* documents of the application, which have it.
validate(dict) ==
    LET a    == ValidateSection(Get(dict, "a")[2], {}, ADefaults)
        gui  == ValidateSection(Get(dict, "gui")[2], {}, GuiDefaults)
        db   == Get(dict, "keypairdb")[2]
        recs == [r \in DOMAIN db |->
                    ValidateSection(db[r][2], RecordRequired, RecordDefaults)]
    IN  [ok   |-> /\ a.ok /\ \A r \in DOMAIN db : recs[r].ok
                  /\ "gui" \in DOMAIN dict => gui.ok,
         dict |-> [k \in DOMAIN dict \cup {"a", "keypairdb"} |->
                     IF k = "a" THEN Mapping(a.dict)
                     ELSE IF k = "keypairdb"
                          THEN Mapping([r \in DOMAIN db |-> Mapping(recs[r].dict)])
                          ELSE IF k = "gui" THEN Mapping(gui.dict)
                          ELSE dict[k]]]

(***************************************************************************)
(* Files.  ConfigObj.write turns every scalar into text; ConfigObj(file)   *)
(* without a configspec reads the text back.  A file is absent, or holds a *)
(* document that is whole, partial (opened 'w', its bytes not yet written: *)
(* empty) or mixed (a shorter document written over a longer one through   *)
(* two handles: the longer one's tail follows it).                         *)
(***************************************************************************)
RECURSIVE ToText(_)
ToText(dict) ==
    [k \in DOMAIN dict |->
        IF IsMapping(dict[k]) THEN Mapping(ToText(dict[k][2]))
        ELSE IF dict[k][2] = "typed" THEN Text(dict[k][3]) ELSE dict[k]]

\* The length of a written document, counted in its lines.
RECURSIVE Sum(_, _)
Sum(f, S) == IF S = {} THEN 0
             ELSE LET k == CHOOSE j \in S : TRUE IN f[k] + Sum(f, S \ {k})

RECURSIVE Size(_)
Size(dict) ==
    Sum([k \in DOMAIN dict |-> IF IsMapping(dict[k]) THEN 1 + Size(dict[k][2]) ELSE 1],
        DOMAIN dict)

NoFile == [st |-> "absent", doc |-> EmptyDict, mtime |-> 0]

File(st, dict, t) == [st |-> st, doc |-> dict, mtime |-> t]

Exists(f) == f.st # "absent"

FileNames == {"primary", "temp", "sentinel", "backup", "backup_temp"}

\* os.rename(src, dst) on a directory fs.
Rename(fs, src, dst) == [fs EXCEPT ![dst] = fs[src], ![src] = NoFile]

(***************************************************************************)
(* Bounds of the model.                                                    *)
(***************************************************************************)
MaxTime == 3

MaxSaves == 1

MaxEdits == 1

MaxSyncs == 2

Procs == {"p1", "p2"}

\* The values of sync_deepness each process opens its handle with.
SyncDeepnesses == [p1 |-> {1}, p2 |-> {1, -1}]

\* Config._temp_file_timeout, in seconds.
temp_file_timeout == 2

(***************************************************************************)
(* The state: the directory, the clock, and per process its Config handle  *)
(* (configobj, configobj_before_sync, sync_time, sync_deepness), the       *)
(* locals of the call it is in (start is init_start in __init__ and        *)
(* move_start in save) and the place it is at (pc).  res is the outcome of *)
(* the process's last call ("recovered": opened from the backup), touched  *)
(* whether its current or last save() has                                  *)
(* created, renamed, removed or written a file, ctx whether that save()    *)
(* began on a directory a dead process left locked (temp present, primary  *)
(* absent, every other process dead) and whether it began on a handle      *)
(* opened from the backup, syncs the number of sync() calls the process's  *)
(* caller has made, and primary_existed whether the primary file has       *)
(* existed at some point up to now.                                        *)
(*                                                                         *)
(* The dicttools functions are also exercised on their own: base_dict and  *)
(* other_dict are the two mappings passed as old_dict and new_dict, depth  *)
(* the deepness, new_items_dict the mapping new_items returned, and tpc    *)
(* the place of that caller ("off" while the store runs).                  *)
(***************************************************************************)
VARIABLES fs, now, pc, configobj, configobj_before_sync, sync_time,
          sync_deepness, start, last_attempt, new_config, file_error,
          res, touched, ctx, saves, edits, syncs, primary_existed,
          base_dict, other_dict, depth, new_items_dict, tpc,
          vpc, result, wsgi_server, wait_start, timeout, environ, response,
          requests, verified_at

handle == <<configobj, configobj_before_sync, sync_time, sync_deepness>>

locals == <<start, last_attempt, new_config, file_error>>

tools == <<base_dict, other_dict, depth, new_items_dict, tpc>>

verifier == <<vpc, result, wsgi_server, wait_start, timeout, environ,
              response, requests, verified_at>>

calls == <<saves, edits, ctx, syncs, tools, verifier>>

counters == <<calls, primary_existed>>

program == <<fs, now, pc, handle, locals, res, touched, saves, edits, ctx,
             syncs, primary_existed, verifier>>

vars == <<fs, now, pc, configobj, configobj_before_sync, sync_time,
          sync_deepness, start, last_attempt, new_config, file_error,
          res, touched, ctx, saves, edits, syncs, primary_existed,
          base_dict, other_dict, depth, new_items_dict, tpc,
          vpc, result, wsgi_server, wait_start, timeout, environ, response,
          requests, verified_at>>

(***************************************************************************)
(* The documents the directory starts with: an empty directory, or a store *)
(* that has been saved before (primary, sentinel and backup present).      *)
(***************************************************************************)
Record0 == [added |-> Text(1), last_used |-> Text(-1)]

Doc0 == [a |-> Mapping([x |-> Text(0), y |-> Text(0)]),
         keypairdb |-> Mapping([f |-> Mapping(Record0)])]

DocPrev == [a |-> Mapping([x |-> Text(0), y |-> Text(0)]),
            keypairdb |-> Mapping(EmptyDict)]

FreshDir == [n \in FileNames |-> NoFile]

StoredDir == [n \in FileNames |->
                 CASE n = "primary"  -> File("whole", Doc0, 0)
                   [] n = "sentinel" -> File("whole", EmptyDict, 0)
                   [] n = "backup"   -> File("whole", DocPrev, 0)
                   [] OTHER          -> NoFile]

\* A request before any request has been handled.
NoUrl == [scheme |-> "", netloc |-> "", path |-> ""]

NoRequest == [method |-> "", path |-> "", host |-> "", content_type |-> "",
              accept |-> "",
              origin |-> [present |-> FALSE, url |-> NoUrl],
              json |-> [ok |-> FALSE, auth_url |-> NoUrl,
                        identity_assertion |-> "", mode |-> ""]]

\* verify_invocation has not been called.
VerifierOff ==
    /\ vpc = "off"
    /\ result = "None"
    /\ wsgi_server = "unset"
    /\ wait_start = 0
    /\ timeout = 0
    /\ environ = NoRequest
    /\ response = ""
    /\ requests = 0
    /\ verified_at = -1

\* No dicttools call of its own is under way.
ToolsOff ==
    /\ base_dict = EmptyDict
    /\ other_dict = EmptyDict
    /\ depth = 0
    /\ new_items_dict = EmptyDict
    /\ tpc = "off"

\* No process has started.
NotStarted ==
    /\ now = 0
    /\ pc = [p \in Procs |-> "init"]
    /\ configobj = [p \in Procs |-> EmptyDict]
    /\ configobj_before_sync = [p \in Procs |-> EmptyDict]
    /\ sync_time = [p \in Procs |-> 0]
    /\ sync_deepness = [p \in Procs |-> 1]
    /\ start = [p \in Procs |-> 0]
    /\ last_attempt = [p \in Procs |-> FALSE]
    /\ new_config = [p \in Procs |-> FALSE]
    /\ file_error = [p \in Procs |-> TRUE]
    /\ res = [p \in Procs |-> "none"]
    /\ touched = [p \in Procs |-> FALSE]
    /\ ctx = [p \in Procs |-> [locked |-> FALSE, recovered |-> FALSE]]
    /\ saves = [p \in Procs |-> 0]
    /\ edits = [p \in Procs |-> 0]
    /\ syncs = [p \in Procs |-> 0]
    /\ primary_existed = Exists(fs["primary"])

Init ==
    /\ fs \in {FreshDir, StoredDir}
    /\ NotStarted
    /\ ToolsOff
    /\ VerifierOff

\* The processes that have file n open: temp is open from open(temp, 'w')
\* (line 187) to close() (line 189).
OpenBy(n) == IF n = "temp" THEN {q \in Procs : pc[q] = "write_body"} ELSE {}

\* Whether os.rename(src, dst) by process p succeeds.
CanRename(p, src, dst) ==
    /\ Exists(fs[src])
    /\ ~Exists(fs[dst])
    /\ OpenBy(src) \ {p} = {}

\* A call of process p ends: its locals are dropped.
EndCallAt(p, place, outcome) ==
    /\ pc' = [pc EXCEPT ![p] = place]
    /\ res' = [res EXCEPT ![p] = outcome]
    /\ start' = [start EXCEPT ![p] = 0]
    /\ last_attempt' = [last_attempt EXCEPT ![p] = FALSE]
    /\ new_config' = [new_config EXCEPT ![p] = FALSE]
    /\ file_error' = [file_error EXCEPT ![p] = TRUE]

EndCall(p, outcome) == EndCallAt(p, "idle", outcome)

Goto(p, place) == pc' = [pc EXCEPT ![p] = place]

\* A comparison that no passing of time makes true.
NeverTimedOut(p) == FALSE

\* A polling loop that gives up as soon as the timeout is reached.
TimeoutReached(p) == now >= start[p] + temp_file_timeout

\* A polling loop that began at start[p] is past its timeout when the time
\* is greater than the start plus the timeout (lines 74 and 147).
TimedOut(p) == now > start[p] + temp_file_timeout

\* The lock file taken for the backup.
RecoverFromTemp == "temp"

\* Line 44: the backup file, which open() falls back to (line 80) and save()
\* replaces (lines 182-184).
backup_filename == "backup"

(***************************************************************************)
(* Config.__init__ (open).                                                 *)
(***************************************************************************)
\* Lines 40-58: the constructor's arguments and init_start.
OpenStart(p) ==
    /\ pc[p] = "init"
    /\ \E d \in SyncDeepnesses[p] : sync_deepness' = [sync_deepness EXCEPT ![p] = d]
    /\ start' = [start EXCEPT ![p] = now]
    /\ file_error' = [file_error EXCEPT ![p] = TRUE]
    /\ Goto(p, "open_try")
    /\ UNCHANGED <<fs, now, configobj, configobj_before_sync, sync_time,
                   last_attempt, new_config, res, touched, counters>>

\* Lines 60-64: ConfigObj(infile=filename, file_error=file_error).
OpenTry(p) ==
    /\ pc[p] = "open_try"
    /\ IF Exists(fs["primary"])
       THEN /\ configobj' = [configobj EXCEPT ![p] = fs["primary"].doc]
            /\ Goto(p, "open_stamp")
       ELSE IF ~file_error[p]
            THEN /\ configobj' = [configobj EXCEPT ![p] = EmptyDict]
                 /\ Goto(p, "open_stamp")
            ELSE /\ Goto(p, "open_miss")
                 /\ UNCHANGED configobj
    /\ UNCHANGED <<fs, now, configobj_before_sync, sync_time, sync_deepness,
                   locals, res, touched, counters>>

\* Lines 65-91: the file is missing.
OpenMiss(p) ==
    /\ pc[p] = "open_miss"
    /\ IF ~Exists(fs["sentinel"])
       THEN /\ file_error' = [file_error EXCEPT ![p] = FALSE]
            /\ Goto(p, "open_try")
            /\ UNCHANGED <<configobj, res>>
       ELSE IF TimedOut(p)
            THEN IF Exists(fs[backup_filename])
                 THEN /\ configobj' = [configobj EXCEPT ![p] =
                                          fs[backup_filename].doc]
                      /\ res' = [res EXCEPT ![p] = "recovering"]
                      /\ Goto(p, "open_stamp")
                      /\ UNCHANGED file_error
                 ELSE /\ file_error' = [file_error EXCEPT ![p] = FALSE]
                      /\ Goto(p, "open_try")
                      /\ UNCHANGED <<configobj, res>>
            ELSE /\ Goto(p, "open_try")
                 /\ UNCHANGED <<configobj, file_error, res>>
    /\ UNCHANGED <<fs, now, configobj_before_sync, sync_time, sync_deepness,
                   start, last_attempt, new_config, touched, counters>>

\* Lines 92-106: the sync time, the validation and the snapshot.  A failed
\* validation raises out of the constructor: the process has no handle.
OpenStamp(p) ==
    /\ pc[p] = "open_stamp"
    /\ LET v == validate(configobj[p])
       IN  /\ sync_time' = [sync_time EXCEPT ![p] = now]
           /\ configobj' = [configobj EXCEPT ![p] = v.dict]
           /\ IF v.ok
              THEN /\ configobj_before_sync' =
                          [configobj_before_sync EXCEPT ![p] = v.dict]
                   /\ EndCall(p, IF res[p] = "recovering"
                                  THEN "recovered" ELSE "opened")
              ELSE /\ UNCHANGED configobj_before_sync
                   /\ EndCallAt(p, "dead", "verr")
    /\ UNCHANGED <<fs, now, sync_deepness, touched, counters>>

(***************************************************************************)
(* The edits a caller makes to the document between calls.                 *)
(***************************************************************************)
Edits == [p1 |-> {"set_x", "del_f"}, p2 |-> {"set_y", "set_used"}]

HasRecord(dict) == /\ "keypairdb" \in DOMAIN dict
                   /\ "f" \in DOMAIN dict["keypairdb"][2]

\* Whether the edit applies to the document.
CanEdit(dict, e) ==
    CASE e = "set_used" -> HasRecord(dict)
      [] e = "set_added" -> HasRecord(dict)
      [] e = "del_f"    -> HasRecord(dict)
      [] OTHER          -> TRUE

\* dict[section][key] = v
SetIn(dict, section, key, v) ==
    Put(dict, section, Mapping(Put(Get(dict, section)[2], key, v)))

ApplyEdit(dict, e) ==
    CASE e = "set_x"    -> SetIn(dict, "a", "x", Typed(1))
      [] e = "set_y"    -> SetIn(dict, "a", "y", Typed(2))
      [] e = "set_x2"   -> SetIn(dict, "a", "x", Typed(2))
      [] e = "set_used" ->
            SetIn(dict, "keypairdb", "f",
                  Mapping(Put(dict["keypairdb"][2]["f"][2], "last_used", Typed(2))))
      [] e = "set_added" ->
            SetIn(dict, "keypairdb", "f",
                  Mapping(Put(dict["keypairdb"][2]["f"][2], "added", Typed(3))))
      [] e = "del_f"    ->
            Put(dict, "keypairdb", Mapping(Del(dict["keypairdb"][2], "f")))

EditFrom(p, es) ==
    /\ pc[p] = "idle"
    /\ edits[p] < MaxEdits
    /\ \E e \in es :
          /\ CanEdit(configobj[p], e)
          /\ configobj' = [configobj EXCEPT ![p] = ApplyEdit(configobj[p], e)]
    /\ edits' = [edits EXCEPT ![p] = @ + 1]
    /\ UNCHANGED <<fs, now, pc, configobj_before_sync, sync_time, sync_deepness,
                   locals, res, touched, saves, ctx, syncs, tools, verifier,
                   primary_existed>>

Edit(p) == EditFrom(p, Edits[p])

(***************************************************************************)
(* Config.sync(filename), as save() calls it at line 175, in two steps:    *)
(* the modification time (line 205), then the load and the merge (lines    *)
(* 221-241).                                                               *)
(***************************************************************************)
\* Lines 205-207: round(getmtime(filename) - sync_time, 2), in whole seconds.
time_difference(mtime, t) == mtime - t

\* A comparison that takes a file written at the sync time for newer.
StrictlyOlder(mtime, t) == time_difference(mtime, t) < 0

\* Lines 209-211: the file is not newer than the handle.
InSync(mtime, t) == time_difference(mtime, t) <= 0

\* Line 221 alone: the loaded file, the edits since the last sync dropped.
Reloaded(p, file) == IF Exists(file) THEN file.doc ELSE EmptyDict

\* Lines 213-228: the document after the merge of the edits since the last
\* sync onto the loaded file; ConfigObj(filename) of a missing file is empty.
Synced(p, file) ==
    recursive_update(IF Exists(file) THEN file.doc ELSE EmptyDict,
                     new_items(configobj_before_sync[p], configobj[p],
                               sync_deepness[p], 0))

(***************************************************************************)
(* Config.save.                                                            *)
(***************************************************************************)
\* Lines 112-129: the validation, the directory and move_start.
SaveStart(p) ==
    /\ pc[p] = "idle"
    /\ saves[p] < MaxSaves
    /\ saves' = [saves EXCEPT ![p] = @ + 1]
    /\ touched' = [touched EXCEPT ![p] = FALSE]
    /\ LET v == validate(configobj[p])
       IN  /\ configobj' = [configobj EXCEPT ![p] = v.dict]
           /\ IF v.ok
              THEN /\ Goto(p, "acquire")
                   /\ res' = [res EXCEPT ![p] = "saving"]
                   /\ start' = [start EXCEPT ![p] = now]
                   /\ UNCHANGED <<last_attempt, new_config, file_error>>
              ELSE EndCall(p, "verr")
    /\ ctx' = [ctx EXCEPT ![p] =
                  [locked    |-> /\ Exists(fs["temp"]) /\ ~Exists(fs["primary"])
                                 /\ \A q \in Procs \ {p} : pc[q] = "dead",
                   recovered |-> res[p] = "recovered"]]
    /\ UNCHANGED <<fs, now, configobj_before_sync, sync_time, sync_deepness,
                   edits, syncs, tools, verifier, primary_existed>>

\* Lines 131-134: os.rename(filename, temp_filename).
Acquire(p) ==
    /\ pc[p] = "acquire"
    /\ IF CanRename(p, "primary", "temp")
       THEN /\ fs' = Rename(fs, "primary", "temp")
            /\ touched' = [touched EXCEPT ![p] = TRUE]
            /\ Goto(p, "sync_stat")
       ELSE /\ Goto(p, "acq_fail")
            /\ UNCHANGED <<fs, touched>>
    /\ UNCHANGED <<now, handle, locals, res, counters>>

\* Lines 136-163: the rename failed.
AcqFail(p) ==
    /\ pc[p] = "acq_fail"
    /\ IF ~Exists(fs["sentinel"])
       THEN /\ new_config' = [new_config EXCEPT ![p] = TRUE]
            /\ Goto(p, "mk_sentinel")
            /\ UNCHANGED <<res, start, last_attempt, file_error>>
       ELSE IF last_attempt[p]
            THEN EndCall(p, "ioerr")
            ELSE /\ IF TimedOut(p)
                    THEN Goto(p, "takeover")
                    ELSE Goto(p, "acquire")
                 /\ UNCHANGED <<res, start, last_attempt, new_config, file_error>>
    /\ UNCHANGED <<fs, now, handle, touched, counters>>

\* Lines 142-144: the sentinel file is created.
MkSentinel(p) ==
    /\ pc[p] = "mk_sentinel"
    /\ fs' = [fs EXCEPT !["sentinel"] = File("whole", EmptyDict, 0)]
    /\ touched' = [touched EXCEPT ![p] = TRUE]
    /\ Goto(p, "write_open")
    /\ UNCHANGED <<now, handle, locals, res, counters>>

\* Lines 152-162: os.rename(temp_filename, filename) after the timeout.
Takeover(p) ==
    /\ pc[p] = "takeover"
    /\ IF CanRename(p, "temp", "primary")
       THEN /\ fs' = Rename(fs, "temp", "primary")
            /\ touched' = [touched EXCEPT ![p] = TRUE]
            /\ last_attempt' = [last_attempt EXCEPT ![p] = TRUE]
            /\ Goto(p, "acquire")
            /\ UNCHANGED <<res, start, new_config, file_error>>
       ELSE IF ~Exists(fs["temp"])
            THEN /\ new_config' = [new_config EXCEPT ![p] = TRUE]
                 /\ Goto(p, "write_open")
                 /\ UNCHANGED <<fs, touched, res, start, last_attempt, file_error>>
            ELSE /\ EndCall(p, "ioerr")
                 /\ UNCHANGED <<fs, touched>>
    /\ primary_existed' = (primary_existed \/ Exists(fs'["primary"]))
    /\ UNCHANGED <<now, handle, calls>>

\* Lines 174-175 and 205-211: sync(filename=temp_filename) reads the
\* modification time; line 220 sets the sync time before the load.
SyncStat(p) ==
    /\ pc[p] = "sync_stat"
    /\ IF ~Exists(fs["temp"])
       THEN /\ EndCall(p, "ioerr")
            /\ UNCHANGED sync_time
       ELSE IF InSync(fs["temp"].mtime, sync_time[p])
            THEN /\ Goto(p, "bk_copy")
                 /\ UNCHANGED <<sync_time, res, locals>>
            ELSE /\ sync_time' = [sync_time EXCEPT ![p] = now]
                 /\ Goto(p, "sync_load")
                 /\ UNCHANGED <<res, locals>>
    /\ UNCHANGED <<fs, now, configobj, configobj_before_sync, sync_deepness,
                   touched, counters>>

\* Lines 213-243: the load, the merge, the validation and the snapshot.
SyncLoad(p) ==
    /\ pc[p] = "sync_load"
    /\ LET merged == Synced(p, fs["temp"])
           v      == validate(merged)
       IN  IF merged = TypeError
           THEN /\ EndCall(p, "typeerr")
                /\ UNCHANGED <<configobj, configobj_before_sync>>
           ELSE /\ configobj' = [configobj EXCEPT ![p] = v.dict]
                /\ IF v.ok
                   THEN /\ configobj_before_sync' =
                               [configobj_before_sync EXCEPT ![p] = v.dict]
                        /\ Goto(p, "bk_copy")
                        /\ UNCHANGED <<res, locals>>
                   ELSE /\ EndCall(p, "verr")
                        /\ UNCHANGED configobj_before_sync
    /\ UNCHANGED <<fs, now, sync_time, sync_deepness, touched, counters>>

\* Line 181: shutil.copy(temp_filename, backup_temp_filename).
BkCopy(p) ==
    /\ pc[p] = "bk_copy"
    /\ IF Exists(fs["temp"])
       THEN /\ fs' = [fs EXCEPT !["backup_temp"] =
                                    File(fs["temp"].st, fs["temp"].doc, 0)]
            /\ touched' = [touched EXCEPT ![p] = TRUE]
            /\ Goto(p, "bk_unlink")
            /\ UNCHANGED <<res, locals>>
       ELSE /\ EndCall(p, "ioerr")
            /\ UNCHANGED <<fs, touched>>
    /\ UNCHANGED <<now, handle, counters>>

\* Lines 182-183: the old backup is removed.
BkUnlink(p) ==
    /\ pc[p] = "bk_unlink"
    /\ fs' = [fs EXCEPT ![backup_filename] = NoFile]
    /\ Goto(p, "bk_rename")
    /\ UNCHANGED <<now, handle, locals, res, touched, counters>>

\* Line 184: os.rename(backup_temp_filename, backup_filename).
BkRename(p) ==
    /\ pc[p] = "bk_rename"
    /\ IF CanRename(p, "backup_temp", backup_filename)
       THEN /\ fs' = Rename(fs, "backup_temp", backup_filename)
            /\ Goto(p, "write_open")
            /\ UNCHANGED <<res, locals>>
       ELSE /\ EndCall(p, "ioerr")
            /\ UNCHANGED fs
    /\ UNCHANGED <<now, handle, touched, counters>>

\* Line 187: open(temp_filename, 'w') creates or truncates the file.
WriteOpen(p) ==
    /\ pc[p] = "write_open"
    /\ fs' = [fs EXCEPT !["temp"] = File("partial", EmptyDict, now)]
    /\ touched' = [touched EXCEPT ![p] = TRUE]
    /\ Goto(p, "write_body")
    /\ UNCHANGED <<now, handle, locals, res, counters>>

\* The file after a document is written from offset 0 through a handle
\* opened before the file's present content was written.
Overwritten(file, dict, t) ==
    File(IF file.st # "partial" /\ Size(file.doc) > Size(dict)
         THEN "mixed" ELSE "whole",
         dict, t)

\* The snapshot of the last synchronisation written in place of the document.
WrittenBeforeSync(p) == ToText(configobj_before_sync[p])

\* Line 188: the document save() writes is the handle's current one.
Written(p) == ToText(configobj[p])

\* The time at which the save() under way began (move_start, line 127).
MoveStart(p) == start[p]

\* Line 192: the sync time save() records is time.time() after the write.
SaveStamp(p) == now

\* Lines 188-192: the document is written, the file closed, the sync time set.
WriteBody(p) ==
    /\ pc[p] = "write_body"
    /\ fs' = [fs EXCEPT !["temp"] = Overwritten(fs["temp"], Written(p), now)]
    /\ sync_time' = [sync_time EXCEPT ![p] = SaveStamp(p)]
    /\ Goto(p, "release")
    /\ UNCHANGED <<now, configobj, configobj_before_sync, sync_deepness,
                   locals, res, touched, counters>>

\* Line 195: os.rename(temp_filename, filename).
Release(p) ==
    /\ pc[p] = "release"
    /\ IF CanRename(p, "temp", "primary")
       THEN /\ fs' = Rename(fs, "temp", "primary")
            /\ EndCall(p, "ok")
       ELSE /\ EndCall(p, "ioerr")
            /\ UNCHANGED fs
    /\ primary_existed' = (primary_existed \/ Exists(fs'["primary"]))
    /\ UNCHANGED <<now, handle, touched, calls>>

(***************************************************************************)
(* Config.sync() as the caller makes it (application.py line 139), on the  *)
(* primary file, and Config.validate() as the caller makes it (keypairdb.py *)
(* line 190).                                                              *)
(***************************************************************************)
\* Lines 200-211 and 220: the modification time of the primary is compared
\* with the sync time; os.path.getmtime raises OSError on a missing file.
SyncCall(p) ==
    /\ pc[p] = "idle"
    /\ syncs[p] < MaxSyncs
    /\ syncs' = [syncs EXCEPT ![p] = @ + 1]
    /\ IF ~Exists(fs["primary"])
       THEN /\ EndCall(p, "ioerr")
            /\ UNCHANGED sync_time
       ELSE IF InSync(fs["primary"].mtime, sync_time[p])
            THEN /\ EndCall(p, "unchanged")
                 /\ UNCHANGED sync_time
            ELSE /\ sync_time' = [sync_time EXCEPT ![p] = now]
                 /\ Goto(p, "reload")
                 /\ UNCHANGED <<res, locals>>
    /\ UNCHANGED <<fs, now, configobj, configobj_before_sync, sync_deepness,
                   touched, saves, edits, ctx, tools, verifier, primary_existed>>

\* Lines 221-243: the load, the merge, the validation and the snapshot.
SyncReload(p) ==
    /\ pc[p] = "reload"
    /\ LET merged == Synced(p, fs["primary"])
           v      == validate(merged)
       IN  IF merged = TypeError
           THEN /\ EndCall(p, "typeerr")
                /\ UNCHANGED <<configobj, configobj_before_sync>>
           ELSE /\ configobj' = [configobj EXCEPT ![p] = v.dict]
                /\ IF v.ok
                   THEN /\ configobj_before_sync' =
                               [configobj_before_sync EXCEPT ![p] = v.dict]
                        /\ EndCall(p, "changed")
                   ELSE /\ EndCall(p, "verr")
                        /\ UNCHANGED configobj_before_sync
    /\ UNCHANGED <<fs, now, sync_time, sync_deepness, touched, counters>>

\* Lines 245-254: validate() on the handle's document.
ValidateCall(p) ==
    /\ pc[p] = "idle"
    /\ LET v == validate(configobj[p])
       IN  /\ configobj' = [configobj EXCEPT ![p] = v.dict]
           /\ EndCall(p, IF v.ok THEN "valid" ELSE "verr")
    /\ UNCHANGED <<fs, now, configobj_before_sync, sync_time, sync_deepness,
                   touched, counters>>

(***************************************************************************)
(* The environment: a process exits in the middle of save(), a system call *)
(* of save() fails (the disk is full, the medium is removed), time passes. *)
(***************************************************************************)
SavePlaces == {"acquire", "acq_fail", "mk_sentinel", "takeover", "sync_stat",
               "sync_load", "bk_copy", "bk_unlink", "bk_rename", "write_open",
               "write_body", "release"}

Crash(p) ==
    /\ pc[p] \in SavePlaces
    /\ EndCallAt(p, "dead", "crashed")
    /\ UNCHANGED <<fs, now, handle, touched, counters>>

\* The system calls of save() after the acquisition that an unexpected error
\* is injected into: the copy, the write, the final rename.
FaultPlaces == {"bk_copy", "write_body", "release"}

Fault(p) ==
    /\ pc[p] \in FaultPlaces
    /\ EndCall(p, "fault")
    /\ UNCHANGED <<fs, now, handle, touched, counters>>

TickUntil(bound) ==
    /\ now < bound
    /\ now' = now + 1
    /\ UNCHANGED <<fs, pc, handle, locals, res, touched, counters>>

Tick == TickUntil(MaxTime)

\* The steps of the calls of open() and save().
CallStep(p) ==
    \/ OpenStart(p) \/ OpenTry(p) \/ OpenMiss(p) \/ OpenStamp(p)
    \/ SaveStart(p) \/ Acquire(p) \/ AcqFail(p) \/ MkSentinel(p)
    \/ Takeover(p) \/ SyncStat(p) \/ SyncLoad(p)
    \/ BkCopy(p) \/ BkUnlink(p) \/ BkRename(p)
    \/ WriteOpen(p) \/ WriteBody(p) \/ Release(p)

Step(p) == Edit(p) \/ CallStep(p)

\* The processes run open, edit and save; none exits, no call is failed.
Next == Tick \/ \E p \in Procs : Step(p)

Spec == Init /\ [][Next]_vars

\* A system call of save() may fail.
SpecFault == Init /\ [][Next \/ \E p \in Procs : Fault(p)]_vars

(***************************************************************************)
(* The dicttools functions on their own.  The arguments are drawn from the *)
(* mappings over Keys whose values are scalars or mappings of scalars; a   *)
(* caller computes new_items(base_dict, other_dict, depth) and applies the *)
(* result to base_dict, or applies other_dict to base_dict directly.       *)
(***************************************************************************)
MaxScalar == 2

Keys == {"j", "k"}

Scalars == {Typed(n) : n \in 1..MaxScalar}

MappingsOver(values) == UNION {[D -> values] : D \in SUBSET Keys}

Flat == MappingsOver(Scalars)

Nested == MappingsOver(Scalars \cup {Mapping(f) : f \in Flat})

Deepnesses == {0, 1, -1}

InitTools ==
    /\ fs = FreshDir
    /\ NotStarted
    /\ base_dict \in Nested
    /\ other_dict \in Nested
    /\ depth \in Deepnesses
    /\ new_items_dict = EmptyDict
    /\ tpc = "args"
    /\ VerifierOff

\* dicttools.py lines 6-30: new_items(base_dict, other_dict, deepness=depth).
CallNewItems ==
    /\ tpc = "args"
    /\ new_items_dict' = new_items(base_dict, other_dict, depth, 0)
    /\ tpc' = "diffed"
    /\ UNCHANGED <<program, base_dict, other_dict, depth>>

\* dicttools.py lines 33-41: recursive_update(base_dict, updates).  The
\* function assigns into the mapping it is given and returns that mapping;
\* when it raises, the mapping keeps the assignments made so far.
CallRecursiveUpdate(updates, returned, raised) ==
    /\ IF recursive_update(base_dict, updates) = TypeError
       THEN /\ base_dict' \in Interrupted(base_dict, updates)
            /\ tpc' = raised
       ELSE /\ base_dict' = recursive_update(base_dict, updates)
            /\ tpc' = returned
    /\ UNCHANGED <<program, other_dict, depth, new_items_dict>>

\* recursive_update(base_dict, new_items(base_dict, other_dict, depth)).
UpdateWithNewItems ==
    /\ tpc = "diffed"
    /\ CallRecursiveUpdate(new_items_dict, "synced", "sync_raised")

\* recursive_update(base_dict, other_dict).
UpdateWithOther ==
    /\ tpc = "args"
    /\ CallRecursiveUpdate(other_dict, "merged", "merge_raised")

SpecTools ==
    InitTools /\ [][CallNewItems \/ UpdateWithNewItems \/ UpdateWithOther]_vars

\* Documents of three levels for new_items with a finite deepness: sections
\* whose one key holds a scalar or a record, the record a flat mapping.
Chains(values) == {EmptyDict} \cup {[k \in {"j"} |-> v] : v \in values}

Deep ==
    MappingsOver(Scalars \cup
        {Mapping(f) : f \in Chains(Scalars \cup {Mapping(g) : g \in Flat})})

InitDiff ==
    /\ fs = FreshDir
    /\ NotStarted
    /\ base_dict \in Deep
    /\ other_dict \in Deep
    /\ depth \in {1, 2}
    /\ new_items_dict = EmptyDict
    /\ tpc = "args"
    /\ VerifierOff

SpecDiff == InitDiff /\ [][CallNewItems]_vars

(***************************************************************************)
(* authengine.py: verify_invocation starts a listener on localhost:2448 in *)
(* a thread of its own and polls for its result until the timeout.  A URL  *)
(* is the record of its scheme, its network location and its path, which   *)
(* urlparse returns as the first three components.                         *)
(***************************************************************************)
MODE_REGISTER == "register"

MODE_AUTH == "auth"

urlparse(url) == <<url.scheme, url.netloc, url.path>>

\* The arguments of the call: auth_url, identity_assertion, mode and the
\* timeout in seconds.
auth_url == [scheme |-> "https", netloc |-> "a.example", path |-> "/login"]

identity_assertion == "alice"

mode == MODE_AUTH

auth_url_components == urlparse(auth_url)

MaxRequests == 2

\* The requests a local client can send: the request that mirrors the
\* arguments, and the requests that differ from it in one field.
Urls == {auth_url,
         [auth_url EXCEPT !.path = "/other"],
         [auth_url EXCEPT !.scheme = "http"],
         [auth_url EXCEPT !.netloc = "b.example"]}

Mirror == [method |-> "POST", path |-> "/verify_invocation",
           host |-> "localhost:2448", content_type |-> "application/json",
           accept |-> "application/json",
           origin |-> [present |-> TRUE, url |-> [auth_url EXCEPT !.path = ""]],
           json |-> [ok |-> TRUE, auth_url |-> auth_url,
                     identity_assertion |-> identity_assertion,
                     mode |-> mode]]

Environs ==
    {Mirror}
        \cup {[Mirror EXCEPT !.method = m] : m \in {"OPTIONS", "GET"}}
        \cup {[Mirror EXCEPT !.path = "/"], [Mirror EXCEPT !.host = "localhost"],
              [Mirror EXCEPT !.content_type = "text/plain"],
              [Mirror EXCEPT !.accept = "text/html"],
              [Mirror EXCEPT !.origin = NoRequest.origin],
              [Mirror EXCEPT !.json = NoRequest.json],
              [Mirror EXCEPT !.json.identity_assertion = "mallory"],
              [Mirror EXCEPT !.json.mode = MODE_REGISTER]}
        \cup {[Mirror EXCEPT !.origin.url = [u EXCEPT !.path = ""]] : u \in Urls}
        \cup {[Mirror EXCEPT !.json.auth_url = u] : u \in Urls}

\* Lines 139-146: the verification of a request that has passed the checks
\* of lines 74-125.
verify_result(env) ==
    /\ urlparse(env.origin.url)[1] = auth_url_components[1]
    /\ urlparse(env.origin.url)[2] = auth_url_components[2]
    /\ env.json.auth_url = auth_url
    /\ env.json.identity_assertion = identity_assertion
    /\ env.json.mode = mode

\* Lines 54-150: the status of the response to a request and whether the
\* request sets the result.  urlparse() without an argument (line 70), and
\* list.append with two arguments (lines 107 and 149), raise TypeError, which
\* the server answers with status 500.
wsgi_app(env) ==
    IF ~env.origin.present
    THEN [status |-> "500", verified |-> FALSE]
    ELSE IF env.path # "/verify_invocation" \/ env.host # "localhost:2448"
    THEN [status |-> "404", verified |-> FALSE]
    ELSE IF env.method \notin {"POST", "OPTIONS"}
    THEN [status |-> "405", verified |-> FALSE]
    ELSE IF env.content_type # "application/json"
    THEN [status |-> "415", verified |-> FALSE]
    ELSE IF env.accept # "application/json"
    THEN [status |-> "406", verified |-> FALSE]
    ELSE IF env.method = "OPTIONS"
    THEN [status |-> IF /\ auth_url_components[1] = urlparse(env.origin.url)[1]
                        /\ auth_url_components[2] = urlparse(env.origin.url)[2]
                     THEN "500" ELSE "200",
          verified |-> FALSE]
    ELSE IF ~env.json.ok
    THEN [status |-> "400", verified |-> FALSE]
    ELSE [status |-> "500", verified |-> verify_result(env)]

\* Lines 25-37: the constructor stores its arguments, starts the thread of
\* the listener and takes the start of the wait.
VerifyStart ==
    /\ vpc = "off"
    /\ timeout' \in {1, 2}
    /\ result' = "None"
    /\ wait_start' = now
    /\ vpc' = "wait"
    /\ UNCHANGED <<fs, now, pc, handle, locals, res, touched, saves, edits,
                   ctx, syncs, primary_existed, tools, wsgi_server, environ,
                   response, requests, verified_at>>

\* Lines 152-156: the thread creates the server and starts it.
WsgiStart ==
    /\ vpc # "off"
    /\ wsgi_server = "unset"
    /\ wsgi_server' = "running"
    /\ UNCHANGED <<fs, now, pc, handle, locals, res, touched, saves, edits,
                   ctx, syncs, primary_existed, tools, vpc, result,
                   wait_start, timeout, environ, response, requests,
                   verified_at>>

\* The timeout test of line 40.
WaitOver == timeout + wait_start < now

\* Lines 38-47: a turn of the polling loop that leaves it.  The timeout is
\* tested before the result; self._wsgi_server is an attribute that the
\* thread of the listener sets, and AttributeError is raised without it.
Poll ==
    /\ vpc = "wait"
    /\ IF WaitOver
       THEN IF wsgi_server = "unset"
            THEN vpc' = "raised" /\ UNCHANGED wsgi_server
            ELSE vpc' = "returned" /\ wsgi_server' = "stopped"
       ELSE /\ result # "None"
            /\ vpc' = "returned"
            /\ UNCHANGED wsgi_server
    /\ UNCHANGED <<fs, now, pc, handle, locals, res, touched, saves, edits,
                   ctx, syncs, primary_existed, tools, result, wait_start,
                   timeout, environ, response, requests, verified_at>>

\* Lines 54-150: the running listener handles a request.
WsgiApp ==
    /\ wsgi_server = "running"
    /\ requests < MaxRequests
    /\ requests' = requests + 1
    /\ \E env \in Environs :
          /\ environ' = env
          /\ response' = wsgi_app(env).status
          /\ result' = IF wsgi_app(env).verified THEN "True" ELSE result
          /\ verified_at' = IF wsgi_app(env).verified /\ result # "True"
                            THEN now ELSE verified_at
    /\ UNCHANGED <<fs, now, pc, handle, locals, res, touched, saves, edits,
                   ctx, syncs, primary_existed, tools, vpc, wsgi_server,
                   wait_start, timeout>>

InitVerify ==
    /\ fs = FreshDir
    /\ NotStarted
    /\ ToolsOff
    /\ VerifierOff

SpecVerify ==
    InitVerify /\ [][Tick \/ VerifyStart \/ WsgiStart \/ Poll \/ WsgiApp]_vars

(***************************************************************************)
(* Schedules in which the calls of the two processes follow one another.   *)
(***************************************************************************)
OpenPlaces == {"init", "open_try", "open_miss", "open_stamp"}

\* The clock of the schedules that wait out the timeout of an open() and of
\* a save() one after the other: a wait ends at the first tick after the
\* timeout.
LongTick == TickUntil(MaxTime + temp_file_timeout + 1)

\* Two writers: p2 opens; then p1 opens, edits and saves; then p2 edits and
\* saves.  A process whose save() has returned does nothing more.
WritersTurn(p) ==
    IF p = "p2"
    THEN \/ pc["p1"] = "init" /\ pc["p2"] \in OpenPlaces
         \/ pc["p1"] = "idle" /\ res["p1"] = "ok" /\ res["p2"] # "ok"
    ELSE pc["p2"] = "idle" /\ saves["p2"] = 0 /\ edits["p2"] = 0
         /\ res["p1"] # "ok"

SpecWriters ==
    Init /\ [][Tick \/ \E p \in Procs : WritersTurn(p) /\ Step(p)]_vars

\* Two writers of one record: the schedule of the two writers, p1 setting
\* a.x or the record's added, p2 setting a.y or the record's last_used.
SubtreeEdits == [p1 |-> {"set_x", "set_added"}, p2 |-> {"set_y", "set_used"}]

SpecSubtree ==
    Init /\ [][\/ Tick
               \/ \E p \in Procs :
                     /\ WritersTurn(p)
                     /\ (EditFrom(p, SubtreeEdits[p]) \/ CallStep(p))]_vars

\* A writer and a remover: the schedule of the two writers, p1 setting a.x,
\* p2 removing the record f (keypairdb.py line 197) before it saves.
RemoveEdits == [p1 |-> {"set_x"}, p2 |-> {"del_f"}]

SpecRemove ==
    Init /\ [][\/ Tick
               \/ \E p \in Procs :
                     /\ WritersTurn(p)
                     /\ (EditFrom(p, RemoveEdits[p]) \/ CallStep(p))]_vars

\* The processes only open and save: the contention for the lock, with no
\* edit of the document.
SpecLock == Init /\ [][Tick \/ \E p \in Procs : CallStep(p)]_vars

\* The places of save() between the acquisition of temp (the loop of lines
\* 130-163 is left) and the final rename (line 195).
HoldPlaces == {"sync_stat", "sync_load", "bk_copy", "bk_unlink", "bk_rename",
               "write_open", "write_body", "release"}

Holders == {p \in Procs : pc[p] \in HoldPlaces}

\* The steps of open().
OpenCall(p) == OpenStart(p) \/ OpenTry(p) \/ OpenMiss(p) \/ OpenStamp(p)

\* An open() during a save(): p2 opens and saves; p1 opens once p2 has its
\* handle.  While p1 polls, the time does not pass the timeout of p1's open()
\* until the save() of p2 has returned: p2 releases before that timeout has
\* elapsed.
HandoverTick ==
    /\ Tick
    /\ (res["p2"] # "ok" /\ pc["p1"] \in {"open_try", "open_miss"})
          => now' <= start["p1"] + temp_file_timeout

SpecHandover ==
    Init /\ [][\/ HandoverTick
               \/ \E p \in Procs :
                     IF p = "p2" THEN CallStep(p)
                     ELSE pc["p2"] \notin OpenPlaces /\ OpenCall(p)]_vars

(***************************************************************************)
(* The instances of the application (keypairmanager.py lines 519-544,      *)
(* application.py lines 131-152): an instance designates itself the        *)
(* synchroniser of the key pair files when the configuration names no live *)
(* process, and saves; its timer calls sync() and then designates again.   *)
(***************************************************************************)
\* os.getpid() of the instances.
Pid == [p1 |-> 1, p2 |-> 2]

\* pidexists.py: the pid is that of a running instance.
pid_exists(pid) ==
    \E p \in Procs : Pid[p] = pid /\ pc[p] \notin {"init", "dead"}

\* keypairmanager.py lines 530-531.
NoSyncer(dict) ==
    \/ "keypair_files_syncer" \notin DOMAIN dict["gui"][2]
    \/ ~pid_exists(dict["gui"][2]["keypair_files_syncer"][3])

\* keypairmanager.py line 541.
IsSyncer(p) ==
    /\ "gui" \in DOMAIN configobj[p]
    /\ "keypair_files_syncer" \in DOMAIN configobj[p]["gui"][2]
    /\ configobj[p]["gui"][2]["keypair_files_syncer"] = Typed(Pid[p])

\* keypairmanager.py lines 530-534: the instance designates itself; the
\* save() of line 535 follows.
Designate(p) ==
    /\ pc[p] = "idle"
    /\ edits[p] < MaxEdits
    /\ edits[p] = saves[p]
    /\ "gui" \in DOMAIN configobj[p]
    /\ NoSyncer(configobj[p])
    /\ configobj' = [configobj EXCEPT ![p] =
                        SetIn(@, "gui", "keypair_files_syncer", Typed(Pid[p]))]
    /\ edits' = [edits EXCEPT ![p] = @ + 1]
    /\ UNCHANGED <<fs, now, pc, configobj_before_sync, sync_time, sync_deepness,
                   locals, res, touched, saves, ctx, syncs, tools, verifier,
                   primary_existed>>

\* A configuration file the application has written names no synchroniser.
InitSyncer ==
    /\ fs = [StoredDir EXCEPT !["primary"] =
                 File("whole",
                      Put(DocPrev, "gui",
                          Mapping([keypair_files_syncer |-> Text(-1)])),
                      0)]
    /\ NotStarted
    /\ ToolsOff
    /\ VerifierOff

\* An instance opens, designates and saves (keypairmanager.py line 453), and
\* its timer synchronises between saves (application.py lines 136-152).
SyncerStep(p) ==
    \/ Designate(p)
    \/ (pc[p] # "idle" \/ edits[p] > saves[p]) /\ CallStep(p)
    \/ edits[p] = saves[p] /\ SyncCall(p)
    \/ SyncReload(p)

SpecSyncer == InitSyncer /\ [][Tick \/ \E p \in Procs : SyncerStep(p)]_vars

\* Two writers of one leaf, then a sync: p2 opens, sets a.x = 2 and saves;
\* then p1 opens, sets a.x = 1 and saves; then p2, with no further edit,
\* calls sync().
ResaveEdits == [p1 |-> {"set_x"}, p2 |-> {"set_x2"}]

ResaveStep(p) ==
    IF p = "p2"
    THEN \/ /\ pc["p1"] = "init" /\ res["p2"] # "ok"
            /\ (EditFrom(p, ResaveEdits[p]) \/ CallStep(p))
         \/ /\ pc["p1"] = "idle" /\ res["p1"] = "ok"
            /\ (SyncCall(p) \/ SyncReload(p))
    ELSE /\ pc["p2"] = "idle" /\ res["p2"] = "ok" /\ res["p1"] # "ok"
         /\ (EditFrom(p, ResaveEdits[p]) \/ CallStep(p))

SpecResave == Init /\ [][Tick \/ \E p \in Procs : ResaveStep(p)]_vars

\* A writer and a reader whose calls overlap: p1 opens, edits and saves while
\* p2 opens and calls sync().
SpecReader ==
    Init /\ [][\/ Tick
               \/ \E p \in Procs :
                     IF p = "p1" THEN Step(p)
                     ELSE OpenCall(p) \/ SyncCall(p) \/ SyncReload(p)]_vars

\* An empty directory: no store has been saved yet.
InitFresh ==
    /\ fs = FreshDir
    /\ NotStarted
    /\ ToolsOff
    /\ VerifierOff

\* The processes run open(), sync() and save() from an empty directory.
SpecFresh ==
    InitFresh /\ [][\/ Tick
                    \/ \E p \in Procs :
                          CallStep(p) \/ SyncCall(p) \/ SyncReload(p)]_vars

(***************************************************************************)
(* The two threads of an instance (application.py lines 127-152): the      *)
(* timer thread calls sync() on the handle the main thread reads and       *)
(* edits; no lock is taken.  The sync() of the timer thread is modelled     *)
(* statement by statement, tpc its place, new_items_dict its local          *)
(* new_items and base_dict its local new_config.  The main thread edits a  *)
(* scalar of a section both the snapshot and the document have, which      *)
(* new_items does not hold by reference.                                   *)
(***************************************************************************)
\* config.py lines 200-217: the modification time, the comparison and the
\* diff; _config_sync_loop catches the OSError of a missing file.
TimerDiff(p) ==
    /\ pc[p] = "idle"
    /\ tpc \in {"off", "t_unchanged", "t_changed"}
    /\ syncs[p] < MaxSyncs
    /\ syncs' = [syncs EXCEPT ![p] = @ + 1]
    /\ IF ~Exists(fs["primary"])
          \/ InSync(fs["primary"].mtime, sync_time[p])
       THEN /\ tpc' = "t_unchanged"
            /\ UNCHANGED new_items_dict
       ELSE /\ tpc' = "t_load"
            /\ new_items_dict' = new_items(configobj_before_sync[p],
                                           configobj[p], sync_deepness[p], 0)
    /\ UNCHANGED <<fs, now, pc, handle, locals, res, touched, saves, edits,
                   ctx, primary_existed, base_dict, other_dict, depth,
                   verifier>>

\* config.py lines 220-224: the sync time, the load and the merge of the
\* diff onto the loaded document; a TypeError ends the thread.
TimerLoad(p) ==
    /\ tpc = "t_load"
    /\ sync_time' = [sync_time EXCEPT ![p] = now]
    /\ LET merged == recursive_update(Reloaded(p, fs["primary"]), new_items_dict)
       IN  IF merged = TypeError
           THEN tpc' = "t_raised" /\ UNCHANGED base_dict
           ELSE tpc' = "t_clear" /\ base_dict' = merged
    /\ UNCHANGED <<fs, now, pc, configobj, configobj_before_sync,
                   sync_deepness, locals, res, touched, saves, edits, ctx,
                   syncs, primary_existed, other_dict, depth, new_items_dict,
                   verifier>>

\* config.py line 227: self._configobj.clear().
TimerClear(p) ==
    /\ tpc = "t_clear"
    /\ configobj' = [configobj EXCEPT ![p] = EmptyDict]
    /\ tpc' = "t_update"
    /\ UNCHANGED <<fs, now, pc, configobj_before_sync, sync_time,
                   sync_deepness, locals, res, touched, saves, edits, ctx,
                   syncs, primary_existed, base_dict, other_dict, depth,
                   new_items_dict, verifier>>

\* config.py lines 228-243: self._configobj.update(new_config), the
\* validation and the snapshot; a validation error ends the thread.
TimerUpdate(p) ==
    /\ tpc = "t_update"
    /\ LET v == validate(base_dict)
       IN  /\ configobj' = [configobj EXCEPT ![p] = v.dict]
           /\ IF v.ok
              THEN /\ configobj_before_sync' =
                          [configobj_before_sync EXCEPT ![p] = v.dict]
                   /\ tpc' = "t_changed"
              ELSE /\ UNCHANGED configobj_before_sync
                   /\ tpc' = "t_raised"
    /\ UNCHANGED <<fs, now, pc, sync_time, sync_deepness, locals, res,
                   touched, saves, edits, ctx, syncs, primary_existed,
                   base_dict, other_dict, depth, new_items_dict, verifier>>

\* keypairdb.py lines 51 and 72: the main thread reads
\* self._config['keypairdb']; a document without the section raises KeyError.
GetItem(p) ==
    /\ pc[p] = "idle"
    /\ res' = [res EXCEPT ![p] = IF "keypairdb" \in DOMAIN configobj[p]
                                  THEN "read" ELSE "keyerror"]
    /\ UNCHANGED <<fs, now, pc, handle, locals, touched, counters>>

\* p1 is an instance with its two threads: it opens, its main thread sets
\* a.x (where the document has the section a) and reads the section
\* keypairdb, its timer thread calls sync(); p2 opens, sets a.y and saves.
SpecThreads ==
    Init /\ [][\/ Tick
               \/ \E p \in Procs :
                     IF p = "p2" THEN EditFrom(p, {"set_y"}) \/ CallStep(p)
                     ELSE \/ OpenCall(p)
                          \/ "a" \in DOMAIN configobj[p] /\ EditFrom(p, {"set_x"})
                          \/ GetItem(p)
                          \/ TimerDiff(p) \/ TimerLoad(p)
                          \/ TimerClear(p) \/ TimerUpdate(p)]_vars

\* No two calls overlap: a process takes a step only while every other
\* process is between calls or has exited; p1 may exit inside save().
Alone(p) == \A q \in Procs \ {p} : pc[q] \in {"init", "idle", "dead"}

SpecTurns ==
    Init /\ [][\/ LongTick
               \/ Crash("p1")
               \/ \E p \in Procs : Alone(p) /\ Step(p)]_vars

\* Recovery: p1 runs with p2 not started and may exit inside save(); p2
\* starts once p1 has exited.
RecoverTurn(p) ==
    IF p = "p1" THEN pc["p2"] = "init" ELSE pc["p1"] = "dead"

SpecRecover ==
    Init /\ [][\/ LongTick
               \/ Crash("p1")
               \/ \E p \in Procs : RecoverTurn(p) /\ Step(p)]_vars

\* p1 opens, edits and saves with p2 not started; then p2 opens.
SeqTurn(p) ==
    IF p = "p1"
    THEN pc["p2"] = "init" /\ res["p1"] # "ok"
    ELSE res["p1"] = "ok" /\ pc["p2"] \in OpenPlaces

SpecSeq == Init /\ [][Tick \/ \E p \in Procs : SeqTurn(p) /\ Step(p)]_vars

\* The places inside a call of open() or save().
CallPlaces == (OpenPlaces \ {"init"}) \cup SavePlaces

\* A call starts while the clock has room left for its timeout to pass.
Room(p) == pc[p] \in CallPlaces \/ now + temp_file_timeout < MaxTime

\* The steps of the runs in which each process opens and then saves once,
\* its document as it was opened: whether a polling loop is left depends on
\* the files present and on the clock, not on the document.
LiveStep(p) ==
    /\ Room(p) /\ Step(p)
    /\ edits' = edits
    /\ saves'[p] <= 1

NextLive == Tick \/ \E p \in Procs : LiveStep(p)

\* p2 keeps running and time keeps passing; p1 may stop anywhere for ever,
\* inside save() too.
SpecLive ==
    /\ Init /\ [][NextLive]_vars
    /\ WF_vars(Tick)
    /\ WF_vars(LiveStep("p2"))

(***************************************************************************)
(* Schedules with sync() calls.                                            *)
(***************************************************************************)
\* The steps of a process whose caller also calls sync().
StepSync(p) == Step(p) \/ SyncCall(p) \/ SyncReload(p)

\* A quiet directory: p2 opens and saves its document as it is while p1 has
\* not started; once p1 has started p2 does nothing more, so that from p1's
\* load of the primary on only p1 touches the files.  p1 opens, edits, saves
\* and calls sync().
QuietStep(p) ==
    IF p = "p2" THEN pc["p1"] = "init" /\ Step(p) /\ edits' = edits
    ELSE pc["p2"] \in {"init", "idle", "dead"} /\ StepSync(p)

SpecQuiet == Init /\ [][Tick \/ \E p \in Procs : QuietStep(p)]_vars

\* A writer and a watcher: p1 opens, edits and saves; p2 opens, saves its
\* document as it is and calls sync(), as the loop of application.py lines
\* 131-141 does; no two calls overlap.
WatchStep(p) ==
    IF p = "p1" THEN Step(p)
    ELSE (Step(p) /\ edits' = edits) \/ SyncCall(p) \/ SyncReload(p)

SpecWatch ==
    Init /\ [][Tick \/ \E p \in Procs : Alone(p) /\ WatchStep(p)]_vars

(***************************************************************************)
(* open() and validate() on the documents a file can hold: each declared   *)
(* key is absent, holds a text its type parses, or a text it does not; the *)
(* section a may be missing, the section keypairdb has no record or one.   *)
(***************************************************************************)
FileScalars == {Text(1), Scalar("bad", 1)}

SectionsOver(keys) == UNION {[D -> FileScalars] : D \in SUBSET keys}

FileDocs ==
    LET as  == {Mapping(sec) : sec \in SectionsOver(DOMAIN ADefaults)}
        dbs == {Mapping(EmptyDict)} \cup
               {Mapping([f |-> Mapping(rec)]) :
                   rec \in SectionsOver(RecordRequired \cup DOMAIN RecordDefaults)}
    IN  {[a |-> sa, keypairdb |-> db] : sa \in as, db \in dbs}
        \cup {[keypairdb |-> db] : db \in dbs}

InitOpen ==
    /\ fs \in {FreshDir} \cup
              {[StoredDir EXCEPT !["primary"] = File("whole", d, 0)] : d \in FileDocs}
    /\ NotStarted
    /\ ToolsOff
    /\ VerifierOff

OpenStep(p) ==
    \/ OpenStart(p) \/ OpenTry(p) \/ OpenMiss(p) \/ OpenStamp(p)
    \/ ValidateCall(p)

SpecOpen == InitOpen /\ [][\E p \in Procs : OpenStep(p)]_vars

(***************************************************************************)
(* The claims.                                                             *)
(***************************************************************************)

\* C1: in every reachable state at most one process holds temp, that is, is
\* between its acquisition step and its final rename of temp to primary.
C1_AtMostOneHolder == Cardinality(Holders) <= 1

\* C2: the primary file, whenever it exists, holds the complete document of
\* one save attempt: it is never partially written and never a mix of the
\* writes of two attempts.
C2_PrimaryWhole == Exists(fs["primary"]) => fs["primary"].st = "whole"

\* C4: the backup file, whenever it exists, holds a complete document, never
\* a partially written one, also after a process exited in the middle of
\* writing temp and another took the lock over.
C4_BackupWhole == Exists(fs["backup"]) => fs["backup"].st = "whole"

\* C8: whenever save() ends with a validation error, at whatever step the
\* validation failed, the call has created, renamed or modified no file.
C8_ValidationErrorTouchesNothing ==
    \A p \in Procs : res[p] = "verr" /\ pc[p] = "idle" => ~touched[p]

\* C9: whenever save() fails with an unexpected filesystem error, the
\* directory is as it was before the call.  Stated for the only call made so
\* far in the run: the directory is the one the run started with.
C9_IOErrorLeavesDirectory ==
    \A p \in Procs :
        (/\ res[p] \in {"fault", "ioerr"}
         /\ \A q \in Procs \ {p} : pc[q] = "init"
         /\ saves[p] = 1)
        => fs \in {FreshDir, StoredDir}

\* The leaf section.key of a document; Text(-99) where there is none.
Leaf(dict, section, key) ==
    IF section \in DOMAIN dict /\ key \in DOMAIN dict[section][2]
    THEN dict[section][2][key] ELSE Text(-99)

\* C3: when p1 has set a.x = 1 and saved, and p2, whose handle was opened
\* before p1's save, has then set a.y = 2 and saved with a sync depth of at
\* least 1, the primary holds both a.x = 1 and a.y = 2.
C3_NoLostUpdate ==
    (/\ \A p \in Procs : pc[p] = "idle" /\ res[p] = "ok"
     /\ Leaf(configobj["p1"], "a", "x") = Typed(1)
     /\ Leaf(configobj["p2"], "a", "y") = Typed(2)
     /\ sync_deepness["p2"] >= 1)
    => /\ Exists(fs["primary"])
       /\ Leaf(fs["primary"].doc, "a", "x") = Text(1)
       /\ Leaf(fs["primary"].doc, "a", "y") = Text(2)

\* C5: a save() that began on a directory a dead process left locked (temp
\* present, primary absent), and ran with no other process alive, ends
\* successfully with the primary present and temp absent.
C5_SaveAfterCrashSucceeds ==
    \A p \in Procs :
        (/\ ctx[p].locked /\ pc[p] = "idle"
         /\ res[p] \in {"ok", "ioerr", "verr"})
        => /\ res[p] = "ok"
           /\ Exists(fs["primary"])
           /\ ~Exists(fs["temp"])

OthersDead(p) == \A q \in Procs \ {p} : pc[q] = "dead"

\* C6: with every other process dead, an open() that found the primary
\* missing past the timeout while a backup existed returns the backup's
\* document after default-filling, and a save() on that handle, once it has
\* ended, has succeeded and left the primary present.
C6_RecoverFromBackup ==
    \A p \in Procs :
        /\ (/\ OthersDead(p) /\ pc[p] = "idle" /\ res[p] = "recovered"
             /\ edits[p] = 0)
            => configobj[p] = validate(fs["backup"].doc).dict
        /\ (/\ OthersDead(p) /\ pc[p] = "idle" /\ ctx[p].recovered
             /\ res[p] \in {"ok", "ioerr", "verr"})
            => res[p] = "ok" /\ Exists(fs["primary"])

\* C6 happens: a handle opened from the backup has been saved.
C6_Witness ==
    /\ OthersDead("p2") /\ pc["p2"] = "idle" /\ ctx["p2"].recovered
    /\ res["p2"] = "ok" /\ Exists(fs["primary"])

C10_CallsTerminate == (pc["p2"] \in CallPlaces) ~> (pc["p2"] \in {"idle", "dead"})

\* C10 happens: an open() of p2 that polled until its timeout, the primary
\* missing, has ended.
C10_Witness == pc["p2"] = "idle" /\ res["p2"] = "recovered"

\* C11: a save() of a schema-valid document never fails its caller because
\* other processes are saving: with no process exiting and no system call
\* failing for another reason, no save() ends with an I/O error.
C11_ContentionNeverFails ==
    \A p \in Procs : pc[p] = "idle" => res[p] # "ioerr"

\* C12: once every call has returned and at least one save() has succeeded,
\* the primary exists with a complete document and temp does not exist.
C12_ConsistentAtRest ==
    (/\ \A p \in Procs : pc[p] \in {"init", "idle", "dead"}
     /\ \E p \in Procs : res[p] = "ok")
    => /\ Exists(fs["primary"])
       /\ fs["primary"].st = "whole"
       /\ ~Exists(fs["temp"])

\* C13: for any two mappings old and new, applying new_items(old, new, -1)
\* to old with recursive_update gives new, also when old has keys new lacks
\* and when a key holds a scalar in one and a mapping in the other.
C13_DiffMergeRoundTrip ==
    (tpc \in {"synced", "sync_raised"} /\ depth = -1)
    => tpc = "synced" /\ base_dict = other_dict

\* C14: a call of recursive_update leaves the mapping passed as its first
\* argument, and every mapping nested in it, with the keys and values it had
\* before the call.
C14_BaseUnchanged ==
    [][tpc' \in {"merged", "synced"} => base_dict' = base_dict]_vars

\* C15: new_items(old, new, 0) holds exactly the top-level keys of new that
\* are absent from old or whose value differs from old's, each with new's
\* whole value: no nested diff is computed, also when both values are
\* mappings.
C15_DepthZeroIsTopLevel ==
    (tpc = "diffed" /\ depth = 0)
    => LET NewOrUnequal == {k \in DOMAIN other_dict :
                               \/ k \notin DOMAIN base_dict
                               \/ base_dict[k] # other_dict[k]}
       IN  new_items_dict = [k \in NewOrUnequal |-> other_dict[k]]

\* C15 happens: at depth 0 a key holds two different mappings that share an
\* equal item, and the result holds the new mapping whole.
C15_Witness ==
    /\ tpc = "diffed" /\ depth = 0
    /\ base_dict = [k |-> Mapping([j |-> Typed(1), k |-> Typed(1)])]
    /\ other_dict = [k |-> Mapping([j |-> Typed(1), k |-> Typed(2)])]
    /\ new_items_dict = other_dict

C17_DefaultFilling ==
    \A p \in Procs :
        LET doc  == fs["primary"].doc
            Omits(section, key) == Leaf(doc, section, key) = Text(-99)
            rec  == Get(Get(doc, "keypairdb")[2], "f")[2]
            HasBad == \/ \E k \in DOMAIN ADefaults : Leaf(doc, "a", k)[2] = "bad"
                      \/ \E k \in DOMAIN rec : rec[k][2] = "bad"
        IN  /\ (pc[p] = "idle" /\ Exists(fs["primary"]))
                => /\ \A k \in DOMAIN ADefaults :
                          Omits("a", k) => Leaf(configobj[p], "a", k) = Typed(0)
                   /\ (HasRecord(doc) /\ "last_used" \notin DOMAIN rec)
                          => configobj[p]["keypairdb"][2]["f"][2]["last_used"]
                                 = Typed(-1)
                   /\ res[p] \in {"opened", "valid"}
            /\ (HasBad /\ pc[p] \notin OpenPlaces)
                => pc[p] = "dead" /\ res[p] = "verr"

\* C17 happens: p1 has opened a file whose record omits last_used and whose
\* section a omits y, and has called validate() with success.
C17_Witness ==
    /\ pc["p1"] = "idle" /\ res["p1"] = "valid"
    /\ HasRecord(fs["primary"].doc)
    /\ DOMAIN fs["primary"].doc["keypairdb"][2]["f"][2] = {"added"}
    /\ "a" \in DOMAIN fs["primary"].doc
    /\ DOMAIN fs["primary"].doc["a"][2] = {"x"}
    /\ Leaf(configobj["p1"], "a", "y") = Typed(0)

\* C18: the sync time of a handle never decreases: every step of open(),
\* sync() and save() leaves it greater than or equal to what it was.
C18_SyncTimeMonotone ==
    [][\A p \in Procs : sync_time'[p] >= sync_time[p]]_vars

\* C18 happens: p2's handle has been stamped by open(), by a save() and then,
\* at a later time, by a sync() that reloaded the primary p1 had saved.
C18_Witness ==
    /\ pc["p2"] = "idle" /\ res["p2"] = "changed" /\ saves["p2"] = 1
    /\ res["p1"] = "ok" /\ sync_time["p2"] > sync_time["p1"]

\* C19: in every reachable state, the states during a first save included,
\* if the sentinel file exists then the primary file exists or has existed.
C19_SentinelAfterPrimary == Exists(fs["sentinel"]) => primary_existed

\* C20: a sync() call ends in one of three ways: it returns changed, it
\* returns unchanged, or it fails with an I/O error; it never fails with a
\* validation error, whatever another process has written to the file.
C20_SyncOutcomes ==
    [][\A p \in Procs :
          (pc[p] = "reload" /\ pc'[p] = "idle")
          => res'[p] \in {"changed", "unchanged", "ioerr"}]_vars

\* The leaves of a document: the pairs of a path and the scalar under it.
RECURSIVE Flatten(_, _)
Flatten(dict, prefix) ==
    UNION {IF IsMapping(dict[k]) THEN Flatten(dict[k][2], Append(prefix, k))
           ELSE {<<Append(prefix, k), dict[k]>>} : k \in DOMAIN dict}

\* C21: when a sync() with depth -1 returns changed, every leaf added or
\* changed in memory since the previous sync has its in-memory value in the
\* merged document, and every other leaf of the target file has the file's
\* value there (before default-filling).  Stated of the merge a sync() that
\* is about to load its target computes, inside save() and on its own.
C21_PerLeafMerge ==
    \A p \in Procs :
        LET file   == IF pc[p] = "sync_load" THEN fs["temp"] ELSE fs["primary"]
            merged == Synced(p, file)
            mine   == Flatten(configobj[p], <<>>)
                          \ Flatten(configobj_before_sync[p], <<>>)
            theirs == {l \in Flatten(file.doc, <<>>) :
                          \A m \in mine : m[1] # l[1]}
        IN  (/\ pc[p] \in {"sync_load", "reload"} /\ sync_deepness[p] = -1
             /\ merged # TypeError /\ validate(merged).ok)
            => (mine \cup theirs) \subseteq Flatten(merged, <<>>)

\* C21 happens: p2, with depth -1 and its own a.y = 2 unsaved, is about to
\* merge onto a file in which p1 has set a.x = 1.
C21_Witness ==
    /\ pc["p2"] = "sync_load" /\ sync_deepness["p2"] = -1
    /\ Leaf(configobj["p2"], "a", "y") = Typed(2)
    /\ Leaf(fs["temp"].doc, "a", "x") = Text(1)
    /\ Leaf(Synced("p2", fs["temp"]), "a", "x") = Text(1)
    /\ Leaf(Synced("p2", fs["temp"]), "a", "y") = Typed(2)

\* C22: in a sync() with the finite depth 1, a record (a mapping at nesting
\* level 1) in which the handle changed a leaf is carried whole from memory:
\* every leaf the handle's record has is written over the file's, an edit by
\* another process to a different leaf of that record included; the leaves of
\* a section within the depth (a.x, a.y) are merged one by one.
C22_SubtreeWholesale ==
    \A p \in Procs :
        LET file   == IF pc[p] = "sync_load" THEN fs["temp"] ELSE fs["primary"]
            merged == Synced(p, file)
            Rec(d) == d["keypairdb"][2]["f"][2]
        IN  (/\ pc[p] \in {"sync_load", "reload"} /\ sync_deepness[p] = 1
             /\ merged # TypeError)
            => /\ (/\ HasRecord(configobj[p])
                    /\ HasRecord(configobj_before_sync[p])
                    /\ Rec(configobj[p]) # Rec(configobj_before_sync[p]))
                   => \A k \in DOMAIN Rec(configobj[p]) :
                          Rec(merged)[k] = Rec(configobj[p])[k]
               /\ \A k \in DOMAIN ADefaults :
                      Leaf(merged, "a", k) =
                          IF Leaf(configobj[p], "a", k)
                                 # Leaf(configobj_before_sync[p], "a", k)
                          THEN Leaf(configobj[p], "a", k)
                          ELSE Leaf(file.doc, "a", k)

\* C22 happens: p2, with depth 1 and its own last_used = 2, is about to merge
\* onto a file in which p1 has set the record's added to 3, and the merged
\* record holds p2's stale added = 1.
C22_Witness ==
    /\ pc["p2"] = "sync_load" /\ sync_deepness["p2"] = 1
    /\ HasRecord(fs["temp"].doc)
    /\ fs["temp"].doc["keypairdb"][2]["f"][2]["added"] = Text(3)
    /\ HasRecord(configobj["p2"])
    /\ configobj["p2"]["keypairdb"][2]["f"][2]["last_used"] = Typed(2)
    /\ Synced("p2", fs["temp"])["keypairdb"][2]["f"][2]["added"] = Typed(1)

\* C23: in save(), a waiter renames the temporary file back only after its
\* wait has exceeded the timeout; after a rename that succeeded it makes one
\* more attempt to take the lock and fails for good when that attempt fails;
\* when the rename fails because the temporary file is gone it goes on as
\* with a new store, with no sync and no backup; any other failure of the
\* rename ends the call with an error.
C23_LockTakeover ==
    [][\A p \in Procs :
          /\ pc'[p] = "takeover" => now' > start'[p] + temp_file_timeout
          /\ (pc[p] = "takeover" /\ pc'[p] # "takeover")
             => IF CanRename(p, "temp", "primary")
                THEN /\ pc'[p] = "acquire" /\ last_attempt'[p]
                     /\ fs' = Rename(fs, "temp", "primary")
                ELSE IF ~Exists(fs["temp"])
                THEN pc'[p] = "write_open" /\ new_config'[p] /\ fs' = fs
                ELSE pc'[p] = "idle" /\ res'[p] = "ioerr"
          /\ (last_attempt[p] /\ pc[p] = "acquire" /\ pc'[p] # "acquire")
             => pc'[p] \in {"sync_stat", "acq_fail"}
          /\ (last_attempt[p] /\ pc[p] = "acq_fail" /\ pc'[p] # "acq_fail")
             => pc'[p] = "idle" /\ res'[p] = "ioerr"
          /\ (new_config[p] /\ pc[p] = "write_open")
             => pc'[p] \in {"write_open", "write_body"}
      ]_vars

\* C23 happens: a waiter, past its timeout, has renamed the temporary file
\* back and its one further attempt to take the lock has failed.
C23_Witness ==
    \E p \in Procs :
        /\ pc[p] = "acq_fail" /\ last_attempt[p]
        /\ now > start[p] + temp_file_timeout
        /\ Exists(fs["sentinel"])

\* C24: an open() that finds the primary file missing and the sentinel file
\* present while another process is in save(), that process releasing before
\* the timeout of the open() has elapsed, goes on polling until it loads the
\* primary file: it neither loads the backup file nor starts an empty
\* document.
C24_OpenWaitsForRelease ==
    [][(/\ pc["p1"] \in {"open_try", "open_miss"} /\ pc'["p1"] = "open_stamp"
        /\ Exists(fs["sentinel"]) /\ file_error["p1"])
       => (/\ Exists(fs["primary"])
           /\ configobj'["p1"] = fs["primary"].doc
           /\ res'["p1"] # "recovering")]_vars

\* C25: for a deepness d > 0, new_items goes into a key whose old and new
\* values are both mappings exactly when the key's level is less than d, and
\* then holds the nested diff under that key even when it is empty; at level
\* d and deeper the values are compared for equality and an unequal new
\* value is held whole.  A key absent from old is held whole, and a key of
\* old alone is never in the result.
C25_FiniteDepthDiff ==
    LET RECURSIVE Agrees(_, _, _, _)
        Agrees(old, new, diff, level) ==
            /\ DOMAIN diff \subseteq DOMAIN new
            /\ \A k \in DOMAIN new :
                   IF k \notin DOMAIN old
                   THEN k \in DOMAIN diff /\ diff[k] = new[k]
                   ELSE IF IsMapping(old[k]) /\ IsMapping(new[k]) /\ level < depth
                   THEN /\ k \in DOMAIN diff /\ IsMapping(diff[k])
                        /\ Agrees(old[k][2], new[k][2], diff[k][2], level + 1)
                   ELSE IF old[k] # new[k]
                   THEN k \in DOMAIN diff /\ diff[k] = new[k]
                   ELSE k \notin DOMAIN diff
    IN  (tpc = "diffed" /\ depth > 0)
        => Agrees(base_dict, other_dict, new_items_dict, 0)

\* C25 happens: with deepness 1 a record at level 1 that differs in one leaf
\* is held whole, its unchanged leaf included.
C25_Witness ==
    /\ tpc = "diffed" /\ depth = 1
    /\ base_dict = [k |-> Mapping([j |-> Mapping([j |-> Typed(1), k |-> Typed(1)])])]
    /\ other_dict = [k |-> Mapping([j |-> Mapping([j |-> Typed(1), k |-> Typed(2)])])]
    /\ new_items_dict = other_dict

\* C26: a sync() whose target's modification time is not later than the
\* handle's sync time does nothing and returns unchanged; a sync() whose
\* target's modification time exceeds the sync time by at least 0.01 s (in
\* the whole seconds of the clock: by at least one second) goes on to the
\* reload and returns changed.
C26_ChangeCheck ==
    [][\A p \in Procs :
          /\ (/\ pc[p] = "idle" /\ syncs'[p] # syncs[p]
              /\ Exists(fs["primary"]))
             => IF fs["primary"].mtime <= sync_time[p]
                THEN /\ pc'[p] = "idle" /\ res'[p] = "unchanged"
                     /\ handle' = handle
                ELSE pc'[p] = "reload"
          /\ (pc[p] = "reload" /\ pc'[p] = "idle") => res'[p] = "changed"
      ]_vars

\* C27: verify_invocation returns a true result only if, before its
\* timeout, the listener handled a POST to /verify_invocation whose Origin
\* has the scheme and the host of the expected auth_url and whose JSON
\* auth_url, identity_assertion and mode equal the expected ones; a request
\* that differs in any of these never sets the result; with no such request
\* the call returns a result that is not true once the timeout has passed.
C27_VerifiedOnlyByMatch ==
    [][/\ (vpc' = "returned" /\ result' = "True")
          => (verified_at' # -1 /\ verified_at' <= wait_start' + timeout')
       /\ (/\ requests' # requests
           /\ ~(/\ environ'.method = "POST"
                 /\ environ'.path = "/verify_invocation"
                 /\ environ'.origin.present
                 /\ environ'.origin.url.scheme = auth_url.scheme
                 /\ environ'.origin.url.netloc = auth_url.netloc
                 /\ environ'.json.ok
                 /\ environ'.json.auth_url = auth_url
                 /\ environ'.json.identity_assertion = identity_assertion
                 /\ environ'.json.mode = mode))
          => result' = result
       /\ (vpc' = "returned" /\ verified_at' = -1) => result' # "True"
      ]_vars

\* C28: when verify_invocation returns, after a matching request or after
\* the timeout, the listener has been stopped and handles no more requests.
C28_ListenerStopped ==
    vpc = "returned" => wsgi_server = "stopped"

\* C29: under every interleaving of the designation, save() and the timer's
\* sync() of the running instances that share a configuration file, at most
\* one instance at a time holds its own pid in gui.keypair_files_syncer of
\* its document.
C29_SingleSyncer ==
    Cardinality({p \in Procs : pc[p] \notin {"init", "dead"} /\ IsSyncer(p)}) <= 1

\* C30: an edit a handle has saved is not applied again over a later write
\* of another process: p2 has saved a.x = 2, then p1 has saved a.x = 1, and
\* p2 has made no further edit; when p2's next sync() has returned changed,
\* p2's a.x is 1, the value on disk.
C30_SavedEditNotReapplied ==
    (/\ pc["p2"] = "idle" /\ res["p2"] = "changed"
     /\ edits["p1"] = 1 /\ edits["p2"] = 1 /\ res["p1"] = "ok"
     /\ Leaf(fs["primary"].doc, "a", "x") = Text(1))
    => Leaf(configobj["p2"], "a", "x") = Typed(1)

\* C31: a key a handle has deleted from its document is absent from the
\* primary after the handle's save() has succeeded, also when another process
\* saved an unrelated change since the handle's last sync: p2 has opened, p1
\* has set a.x and saved, p2 has removed the record f and saved.
C31_DeletionPersists ==
    (pc["p2"] = "idle" /\ res["p2"] = "ok" /\ edits["p2"] = 1)
    => ~HasRecord(fs["primary"].doc)

\* C32: a waiter renames the temporary file back to the primary only when
\* its holder has held it for at least the timeout: no process that is
\* between its acquisition and its final rename, and whose save() began less
\* than the timeout ago, has the temporary file renamed away by a waiter.
C32_TakeoverOnlyFromStaleHolder ==
    [][\A p \in Procs :
          (/\ pc[p] = "takeover" /\ pc'[p] = "acquire"
           /\ fs' = Rename(fs, "temp", "primary"))
          => \A q \in Holders \ {p} : now >= MoveStart(q) + temp_file_timeout
      ]_vars

\* C33: once the backup file exists it exists in every later state, the
\* states inside the backup step of a later save() and the states a process
\* that exited inside that step leaves included: no step takes the backup
\* file away.
C33_BackupContinuity ==
    [][Exists(fs[backup_filename]) => Exists(fs'[backup_filename])]_vars

\* C34: no write of the primary by another process is missed by the next
\* sync() of a handle, a write that lands between the load of open() and the
\* sync time open() records included: when the first sync() after p2's open()
\* returns unchanged on a file whose modification time is earlier than p2's
\* sync time, p2's document is the file's content after default-filling.
C34_NoWriteMissed ==
    [][(/\ pc["p2"] = "idle" /\ res["p2"] = "opened"
        /\ syncs'["p2"] # syncs["p2"]
        /\ pc'["p2"] = "idle" /\ res'["p2"] = "unchanged"
        /\ fs["primary"].mtime < sync_time["p2"])
       => configobj["p2"] = validate(fs["primary"].doc).dict]_vars

C36_PrimaryXorTemp ==
    /\ ~(Exists(fs["primary"]) /\ Exists(fs["temp"]))
    /\ (Exists(fs["temp"]) \/ Exists(fs["primary"])) => Exists(fs["sentinel"])

\* C37: the sync() of the timer thread and the main thread's use of the same
\* handle interleave safely: the main thread never reads the document in the
\* emptied state between the clear and the update of sync() (its read of the
\* section keypairdb never raises KeyError), and an edit the main thread has
\* made (a.x = 1), also one made between the diff and the replacement of the
\* document, is in the document when sync() has returned changed.
C37_ThreadsInterleaveSafely ==
    /\ res["p1"] # "keyerror"
    /\ (tpc = "t_changed" /\ edits["p1"] = 1)
          => Leaf(configobj["p1"], "a", "x") = Typed(1)

\* C38: a sync() that raises after it has gone on to the reload (the merge
\* or the validation of the merged document fails) leaves the handle as it
\* was before the call: the document and the snapshot are unchanged, and the
\* sync time is such that the file is still newer, so that a later sync()
\* sees the same external change again.
C38_FailedSyncLeavesHandle ==
    [][\A p \in Procs :
          (/\ pc[p] = "reload" /\ pc'[p] = "idle"
           /\ res'[p] \in {"verr", "typeerr"})
          => /\ configobj'[p] = configobj[p]
             /\ configobj_before_sync'[p] = configobj_before_sync[p]
             /\ ~InSync(fs'["primary"].mtime, sync_time'[p])
      ]_vars

\* C39: no silent reset.  In a state where the sentinel file exists and the
\* primary, the temporary or the backup file holds a complete document, the
\* states a process that exited inside save() leaves included, open() does
\* not start an empty, brand-new document.
C39_NoSilentReset ==
    [][\A p \in Procs :
          (/\ pc[p] = "open_try" /\ pc'[p] = "open_stamp"
           /\ ~Exists(fs["primary"]))
          => ~(/\ Exists(fs["sentinel"])
               /\ \E n \in {"primary", "temp", backup_filename} :
                     fs[n].st = "whole")
      ]_vars


=============================================================================
